---- MODULE Spec2Model ----
(***************************************************************************)
(* The claim-submission controller of the Veritas Health Agent front end.  *)
(*                                                                         *)
(* Three builds of the App component are modelled:                         *)
(*   "basic"     src/frontend/src/App.jsx   (image upload, alert on error) *)
(*   "redesign"  src/unnamed/part_000       (same logic, new result card)  *)
(*   "hardened"  src/unnamed/part_001       (error state, 120 s timeout)   *)
(*                                                                         *)
(* JavaScript runs one callback at a time, so every action below is one    *)
(* run of a callback from its start to its next await (or its return).     *)
(* The one exception is alert(), which suspends the callback that calls it *)
(* and blocks the event loop until the dialog is dismissed.                *)
(*                                                                         *)
(* An optional value (null or a value) is a sequence of length 0 or 1.     *)
(* A text that is searched by substring is a sequence of characters.       *)
(***************************************************************************)
EXTENDS Integers, Sequences, FiniteSets

VARIABLES
    variant,      \* which build of App is running
    claim,        \* useState('')    the claim text
    imageBase64,  \* useState(null)  the encoded image
    result,       \* useState(null)  the last analysis result
    loading,      \* useState(false)
    error,        \* useState(null)  (hardened build only; stays null elsewhere)
    view,         \* the last committed render: what the DOM shows and what the
                  \* handlers created by that render closed over
    reqs,         \* one entry per call of fetch(): where its async function is
    timer,        \* the setTimeout of each request (hardened build)
    readers,      \* one entry per FileReader started by the file input
    alerting,     \* the request whose handler is suspended inside alert(); 0 if none
    outcome,      \* how the latest submission ended, as the environment decided it
    invoked       \* the latest call of analyzeClaim: n flips at each call, did tells
                  \* whether it returned at the guard or started a request

vars == <<variant, claim, imageBase64, result, loading, error, view, reqs, timer,
          readers, alerting, outcome, invoked>>

-----------------------------------------------------------------------------
(* Bounds of the model *)

MaxReq == 2      \* calls of fetch() in one run
MaxReads == 2    \* files selected in one run

-----------------------------------------------------------------------------
(* Values *)

Variants == {"basic", "redesign", "hardened"}

Null == <<>>
Some(x) == <<x>>

\* texts the user types into the textarea
TypedTexts == {"", "Drinking lemon water cures cancer"}

\* reader.result of a file read
DataURIs == {"data:image/png;base64,AAAA"}

\* the error objects that reach the catch block
AbortError == [name |-> "AbortError", message |-> <<"The user aborted a request.">>]
FetchTypeError == [name |-> "TypeError", message |-> <<"Failed to fetch">>]
JsonSyntaxError == [name |-> "SyntaxError", message |-> <<"Unexpected token < in JSON">>]

\* HTTP status codes the server answers with
Statuses == {200, 500}

LitTrue == <<"T","r","u","e">>
LitFalse == <<"F","a","l","s","e">>
LitMisleading == <<"M","i","s","l","e","a","d","i","n","g">>

\* verdict strings the service returns
Verdicts ==
    { LitTrue,
      LitFalse,
      LitMisleading,
      <<"U","n","v","e","r","i","f","i","e","d">>,
      <<"M","o","s","t","l","y"," ">> \o LitFalse \o <<","," ","p","a","r","t","l","y"," ">> \o LitTrue }

MsgTimeout == <<"Request timed out. The server took too long to respond.">>
MsgGeneric == <<"Failed to connect to the server. Please ensure the backend is running.">>

-----------------------------------------------------------------------------
(* Pure helpers *)

\* String.prototype.includes
Includes(s, sub) ==
    \E i \in 0..(Len(s) - Len(sub)) : SubSeq(s, i + 1, i + Len(sub)) = sub

DigitChars == <<"0","1","2","3","4","5","6","7","8","9">>

RECURSIVE ToStr(_)
\* the decimal text of a number, as a template literal interpolates it
ToStr(n) ==
    IF n < 10 THEN <<DigitChars[n + 1]>>
    ELSE ToStr(n \div 10) \o <<DigitChars[(n % 10) + 1]>>

\* response.ok
ResponseOk(status) == status >= 200 /\ status <= 299

\* new Error(`Server error: ${response.status}`).message
ServerErrorMessage(status) == <<"Server error: ">> \o ToStr(status)

\* mutant: the guard is missing
GuardReturns_Never(v, c, img) == FALSE

\* the first line of analyzeClaim: TRUE when it returns at once
GuardReturns(v, c, img) ==
    IF v = "hardened" THEN c = "" ELSE c = "" /\ img = Null

\* the image_base64 field of the request body
BodyImage(v, img) == IF v = "hardened" THEN Null ELSE img

\* throw new Error(`Server error: ${response.status}`)
ServerError(status) == [name |-> "Error", message |-> ServerErrorMessage(status)]

\* mutant: the catch block does not look at error.name
CatchMessage_NoAbortCheck(err) == MsgGeneric

\* the catch block's choice of message (hardened build)
CatchMessage(err) ==
    IF err.name = "AbortError" THEN MsgTimeout ELSE MsgGeneric

\* mutant: the previous error is not cleared when a submission starts
ClearedError_Kept(v, e) == e

\* setError(null) at the start of a submission; the other builds have no error state
ClearedError(v, e) == IF v = "hardened" THEN Null ELSE e

\* mutant: setLoading(false) is missing
FinallyLoading_Kept(l) == l

\* finally { setLoading(false) }
FinallyLoading(l) == FALSE

\* mutant: the button has no disabled attribute
ButtonEnabled_Always == TRUE

\* disabled={loading} on the submit button, as last rendered
ButtonEnabled == ~view.loading

\* mutant: the timer's callback reports a timeout whatever the request's state
AbortRejects_Always(st) == TRUE

\* whether controller.abort() rejects the request's pending promise:
\* only a request that has not settled can be aborted
AbortRejects(st) == st \in {"fetch", "json"}

\* mutant: the test for "False" comes before the test for "True"
SeverityClass_FalseFirst(v, verdict) ==
    IF v = "basic"
    THEN IF Includes(verdict, LitFalse) THEN "danger"
         ELSE IF Includes(verdict, LitTrue) THEN "success"
         ELSE "warning"
    ELSE IF Includes(verdict, LitFalse) \/ Includes(verdict, LitMisleading) THEN "danger"
         ELSE IF Includes(verdict, LitTrue) THEN "success"
         ELSE "warning"

\* the colour of the verdict, by build
SeverityClass(v, verdict) ==
    IF v = "basic"
    THEN IF Includes(verdict, LitTrue) THEN "success"
         ELSE IF Includes(verdict, LitFalse) THEN "danger"
         ELSE "warning"
    ELSE IF Includes(verdict, LitTrue) THEN "success"
         ELSE IF Includes(verdict, LitFalse) \/ Includes(verdict, LitMisleading) THEN "danger"
         ELSE "warning"

\* what a render of App commits, given the state it reads
Commit(v, c, img, l, res) ==
    [ claim |-> c,
      imageBase64 |-> img,
      loading |-> l,
      result |-> res,
      cls |-> IF res = Null THEN "none" ELSE SeverityClass(v, res[1].verdict) ]

ReqIds == 1..MaxReq
ReadIds == 1..MaxReads

NoReq == [st |-> "none", text |-> "", image |-> Null, status |-> 0]
AlertReq == [st |-> "alert", text |-> "", image |-> Null, status |-> 0]
DoneReq == [st |-> "done", text |-> "", image |-> Null, status |-> 0]
NoRead == [st |-> "none", claim |-> "", data |-> Null]
DoneRead == [st |-> "done", claim |-> "", data |-> Null]
NoOutcome == [kind |-> "none", id |-> 0, status |-> 0]

Outstanding == {r \in ReqIds : reqs[r].st \in {"fetch", "json"}}

-----------------------------------------------------------------------------
(* Initial state: the component as first rendered *)

Init ==
    /\ variant \in Variants
    /\ claim = ""
    /\ imageBase64 = Null
    /\ result = Null
    /\ loading = FALSE
    /\ error = Null
    /\ view = Commit(variant, "", Null, FALSE, Null)
    /\ reqs = [r \in ReqIds |-> NoReq]
    /\ timer = [r \in ReqIds |-> "none"]
    /\ readers = [k \in ReadIds |-> NoRead]
    /\ alerting = 0
    /\ outcome = NoOutcome
    /\ invoked = [n |-> 0, did |-> "none"]

-----------------------------------------------------------------------------
(* User events.  React commits the state updates made inside an event      *)
(* handler before the browser dispatches the next event, so the render is  *)
(* part of the action.                                                      *)

\* textarea onChange={(e) => setClaim(e.target.value)}
TypeClaim(t) ==
    /\ alerting = 0
    /\ t # view.claim
    /\ claim' = t
    /\ view' = Commit(variant, t, imageBase64, loading, result)
    /\ UNCHANGED <<variant, imageBase64, result, loading, error, reqs, timer,
                   readers, alerting, outcome, invoked>>

\* file input onChange: a FileReader is started; its onloadend closes over
\* the claim of the render that created the handler
SelectFile(k, d) ==
    /\ alerting = 0
    /\ variant # "hardened"
    /\ readers[k].st = "none"
    /\ \A j \in ReadIds : j < k => readers[j].st # "none"
    /\ readers' = [readers EXCEPT ![k] = [st |-> "reading", claim |-> view.claim, data |-> Some(d)]]
    /\ UNCHANGED <<variant, claim, imageBase64, result, loading, error, view, reqs,
                   timer, alerting, outcome, invoked>>

\* reader.onloadend; reader.result is null when the read failed.
\* Not a React event handler: the render follows as a step of its own.
LoadEnd(k, ok) ==
    /\ alerting = 0
    /\ readers[k].st = "reading"
    /\ imageBase64' = IF ok THEN readers[k].data ELSE Null
    /\ claim' = IF readers[k].claim = "" THEN "Image uploaded" ELSE claim
    /\ readers' = [readers EXCEPT ![k] = DoneRead]
    /\ UNCHANGED <<variant, result, loading, error, view, reqs, timer, alerting,
                   outcome, invoked>>

\* analyzeClaim up to its await, for a call that passes the guard
SubmitStart(r) ==
    /\ loading' = TRUE
    /\ result' = Null
    /\ error' = ClearedError(variant, error)
    /\ reqs' = [reqs EXCEPT ![r] = [st |-> "fetch", text |-> view.claim,
                                    image |-> BodyImage(variant, view.imageBase64),
                                    status |-> 0]]
    /\ timer' = [timer EXCEPT ![r] = IF variant = "hardened" THEN "armed" ELSE "none"]
    /\ outcome' = NoOutcome
    /\ view' = Commit(variant, claim, imageBase64, loading', result')
    /\ UNCHANGED <<variant, claim, imageBase64, readers, alerting>>

\* a click on the submit button whose analyzeClaim returns at its first line
ClickIgnored ==
    /\ alerting = 0
    /\ ButtonEnabled
    /\ GuardReturns(variant, view.claim, view.imageBase64)
    /\ invoked' = [n |-> 1 - invoked.n, did |-> "returned"]
    /\ UNCHANGED <<variant, claim, imageBase64, result, loading, error, view, reqs,
                   timer, readers, alerting, outcome>>

\* a click on the submit button whose analyzeClaim starts a request
ClickSubmit(r) ==
    /\ alerting = 0
    /\ ButtonEnabled
    /\ ~GuardReturns(variant, view.claim, view.imageBase64)
    /\ reqs[r].st = "none"
    /\ \A j \in ReqIds : j < r => reqs[j].st # "none"
    /\ invoked' = [n |-> 1 - invoked.n, did |-> "started"]
    /\ SubmitStart(r)

-----------------------------------------------------------------------------
(* Continuations of analyzeClaim *)

\* catch (error) { ... } finally { setLoading(false) }
\* hardened: setError; the other builds: alert(), which blocks until dismissed
Catch(r, err, kind, status) ==
    /\ IF variant = "hardened"
       THEN /\ error' = Some(CatchMessage(err))
            /\ loading' = FinallyLoading(loading)
            /\ reqs' = [reqs EXCEPT ![r] = DoneReq]
            /\ UNCHANGED alerting
       ELSE /\ alerting' = r
            /\ reqs' = [reqs EXCEPT ![r] = AlertReq]
            /\ UNCHANGED <<error, loading>>
    /\ outcome' = [kind |-> kind, id |-> r, status |-> status]
    /\ UNCHANGED <<variant, claim, imageBase64, result, view, readers, invoked>>

\* the user dismisses the alert; the suspended handler runs its finally block
DismissAlert ==
    /\ alerting # 0
    /\ loading' = FinallyLoading(loading)
    /\ reqs' = [reqs EXCEPT ![alerting] = DoneReq]
    /\ alerting' = 0
    /\ UNCHANGED <<variant, claim, imageBase64, result, error, view, timer, readers,
                   outcome, invoked>>

\* fetch() resolves with a response of status s
FetchResolve(r, s) ==
    /\ alerting = 0
    /\ reqs[r].st = "fetch"
    /\ IF variant = "hardened"
       THEN /\ timer' = [timer EXCEPT ![r] = "cleared"]
            /\ IF ~ResponseOk(s)
               THEN Catch(r, ServerError(s), "http", s)
               ELSE /\ reqs' = [reqs EXCEPT ![r].st = "json", ![r].status = s]
                    /\ UNCHANGED <<variant, claim, imageBase64, result, loading, error,
                                   view, readers, alerting, outcome, invoked>>
       ELSE /\ reqs' = [reqs EXCEPT ![r].st = "json", ![r].status = s]
            /\ UNCHANGED <<variant, claim, imageBase64, result, loading, error, view,
                           timer, readers, alerting, outcome, invoked>>

\* response.json() resolves: setResult(data), then finally
BodyParsed(r, v) ==
    /\ alerting = 0
    /\ reqs[r].st = "json"
    /\ result' = Some([verdict |-> v])
    /\ loading' = FinallyLoading(loading)
    /\ reqs' = [reqs EXCEPT ![r] = DoneReq]
    /\ outcome' = [kind |-> "success", id |-> r, status |-> reqs[r].status]
    /\ UNCHANGED <<variant, claim, imageBase64, error, view, timer, readers, alerting,
                   invoked>>

\* response.json() rejects: the body is not JSON
BodyInvalid(r) ==
    /\ alerting = 0
    /\ reqs[r].st = "json"
    /\ Catch(r, JsonSyntaxError, "badjson", reqs[r].status)
    /\ UNCHANGED timer

\* the connection fails: fetch() or response.json() rejects with a TypeError
NetworkFail(r) ==
    /\ alerting = 0
    /\ reqs[r].st \in {"fetch", "json"}
    /\ Catch(r, FetchTypeError, "netfail", reqs[r].status)
    /\ UNCHANGED timer

\* setTimeout(() => controller.abort(), 120000) fires
TimerFire(r) ==
    /\ alerting = 0
    /\ timer[r] = "armed"
    /\ timer' = [timer EXCEPT ![r] = "fired"]
    /\ IF AbortRejects(reqs[r].st)
       THEN Catch(r, AbortError, "timeout", reqs[r].status)
       ELSE UNCHANGED <<variant, claim, imageBase64, result, loading, error, view,
                        reqs, readers, alerting, outcome, invoked>>

\* React renders the updates made outside an event handler
Render ==
    /\ alerting = 0
    /\ view # Commit(variant, claim, imageBase64, loading, result)
    /\ view' = Commit(variant, claim, imageBase64, loading, result)
    /\ UNCHANGED <<variant, claim, imageBase64, result, loading, error, reqs, timer,
                   readers, alerting, outcome, invoked>>

Next ==
    \/ \E t \in TypedTexts : TypeClaim(t)
    \/ \E k \in ReadIds, d \in DataURIs : SelectFile(k, d)
    \/ \E k \in ReadIds, ok \in BOOLEAN : LoadEnd(k, ok)
    \/ ClickIgnored
    \/ \E r \in ReqIds : ClickSubmit(r)
    \/ DismissAlert
    \/ \E r \in ReqIds, s \in Statuses : FetchResolve(r, s)
    \/ \E r \in ReqIds, v \in Verdicts : BodyParsed(r, v)
    \/ \E r \in ReqIds : BodyInvalid(r)
    \/ \E r \in ReqIds : NetworkFail(r)
    \/ \E r \in ReqIds : TimerFire(r)
    \/ Render

Spec == Init /\ [][Next]_vars

\* The timer of a pending request fires after 120 s, a pending render is
\* carried out, and an alert is eventually dismissed.  The server is under
\* no obligation.
FairSpec ==
    /\ Spec
    /\ WF_vars(\E r \in ReqIds : TimerFire(r))
    /\ WF_vars(Render)
    /\ WF_vars(DismissAlert)

-----------------------------------------------------------------------------
(* Properties *)

\* C1: in the hardened build the stored result and the stored error are
\* never both non-empty.
C1_ResultErrorExclusive ==
    variant = "hardened" => ~(result # Null /\ error # Null)

\* a result is stored by the second submission after the first one ended in
\* an error that left its timer behind (network failure or timeout)
C1_Witness ==
    /\ variant = "hardened"
    /\ result # Null
    /\ outcome.id = 2
    /\ timer[1] \in {"armed", "fired"}

\* C2 as stated: loading is true exactly when a request is outstanding.
C2_LoadingIffOutstanding ==
    loading <=> Outstanding # {}

\* C2 as amended: loading is true exactly when a request is outstanding or
\* the failure alert of the basic builds has not been dismissed yet.
C2_LoadingIffOutstandingOrAlert ==
    loading <=> (Outstanding # {} \/ alerting # 0)

\* a submission has ended on a failure path and loading is false again
C2_Witness ==
    /\ ~loading
    /\ outcome.kind \in {"netfail", "http", "timeout", "badjson"}
    /\ reqs[outcome.id].st = "done"

\* C3: at most one analysis request is outstanding at any time.
C3_AtMostOneOutstanding ==
    Cardinality(Outstanding) <= 1

\* a second request is in flight after the first one has completed
C3_Witness ==
    /\ reqs[1].st = "done"
    /\ Outstanding = {2}

\* C4: a call of analyzeClaim that sees an empty claim and no image starts
\* no request and changes no state.
C4_EmptySubmitIsNoOp ==
    [][ (invoked'.n # invoked.n /\ view.claim = "" /\ view.imageBase64 = Null)
        => UNCHANGED <<claim, imageBase64, result, loading, error, reqs, timer>> ]_vars

\* the latest call returned at the guard while a result was on display
C4_Witness ==
    /\ invoked.did = "returned"
    /\ result # Null
    /\ view.claim = ""
    /\ view.imageBase64 = Null

\* C5: in the hardened build a non-success status S ends the submission with
\* an error message that embeds S and with no result.
C5_ErrorEmbedsStatus ==
    (variant = "hardened" /\ outcome.kind = "http")
        => /\ error # Null
           /\ Includes(error[1], ToStr(outcome.status))
           /\ result = Null

\* C6: in the hardened build, when the timer fires before fetch() has
\* settled, the submission ends with the timeout message and no result, and
\* they stay so until the next submission.
C6_TimeoutMessage ==
    [][ /\ \A r \in ReqIds :
             (timer[r] = "armed" /\ timer'[r] = "fired" /\ reqs[r].st = "fetch")
                 => /\ reqs'[r].st = "done"
                    /\ error' = Some(MsgTimeout)
                    /\ result' = Null
                    /\ ~loading'
        /\ outcome'.kind = "timeout"
             => (error' = Some(MsgTimeout) /\ result' = Null) ]_vars

\* a submission has timed out
C6_Witness ==
    /\ variant = "hardened"
    /\ outcome.kind = "timeout"
    /\ timer[outcome.id] = "fired"

\* C7: in the hardened build a network failure before the timeout ends the
\* submission with the generic message and no result, and the timer the
\* submission left behind changes neither when it fires.
C7_NetworkFailureMessage ==
    [][ /\ (outcome'.kind = "netfail" /\ variant = "hardened")
             => (error' = Some(MsgGeneric) /\ result' = Null)
        /\ \A r \in ReqIds :
             (timer[r] = "armed" /\ timer'[r] = "fired" /\ reqs[r].st = "done")
                 => UNCHANGED <<result, error, loading>> ]_vars

\* the timer of a submission that failed at the network level has fired
C7_Witness ==
    /\ variant = "hardened"
    /\ outcome.kind = "netfail"
    /\ timer[outcome.id] = "fired"
    /\ error = Some(MsgGeneric)

\* C8: when a file read completes, the claim becomes "Image uploaded" if it
\* is empty at that moment and is left alone otherwise.
C8_SeedOnlyIfEmpty ==
    [][ \A k \in ReadIds :
          (readers[k].st = "reading" /\ readers'[k].st = "done")
              => claim' = (IF claim = "" THEN "Image uploaded" ELSE claim) ]_vars

\* C9: in the hardened build every submission returns to idle with a result
\* or an error, given that timers fire.
C9_BoundedWait ==
    (variant = "hardened" /\ loading)
        ~> (~loading /\ (result # Null \/ error # Null))

\* C10 as stated: "True" gives success, "False" danger and "Misleading"
\* warning, in every build.
C10_SeverityByContainment ==
    view.result # Null =>
        LET v == view.result[1].verdict IN
        /\ Includes(v, LitTrue) => view.cls = "success"
        /\ Includes(v, LitFalse) => view.cls = "danger"
        /\ Includes(v, LitMisleading) => view.cls = "warning"

\* C10 as amended: the tests are tried in order.  "True" gives success;
\* failing that, "False" gives danger; failing that, "Misleading" gives
\* danger in the redesigned and hardened builds and warning in the basic
\* build; any other verdict gives warning.
C10_SeverityOrdered ==
    view.result # Null =>
        LET v == view.result[1].verdict
            t == Includes(v, LitTrue)
            f == Includes(v, LitFalse)
            m == Includes(v, LitMisleading)
        IN
        /\ t => view.cls = "success"
        /\ (~t /\ f) => view.cls = "danger"
        /\ (~t /\ ~f /\ m) => view.cls = (IF variant = "basic" THEN "warning" ELSE "danger")
        /\ (~t /\ ~f /\ ~m) => view.cls = "warning"

\* a verdict holding both "False" and "True" is on display
C10_Witness ==
    /\ view.result # Null
    /\ Includes(view.result[1].verdict, LitTrue)
    /\ Includes(view.result[1].verdict, LitFalse)
    /\ view.cls = "success"

====
